---- MODULE Spec2Model ----
(***************************************************************************)
(* Workflow concurrency controller of hatchet                              *)
(* (internal/services/controllers/workflows): the task router, the         *)
(* group-key scheduler, the admission engine and the two reconciler jobs.  *)
(*                                                                         *)
(* The repository layer (the store) is not part of the controller's        *)
(* sources; its operations are modelled from the specification, sections   *)
(* 3, 4.2, 4.3, 4.4, 5 and 6.2, and are marked so where they are defined.  *)
(***************************************************************************)
EXTENDS Integers, Sequences, FiniteSets, TLC

\* ------------------------------------------------------------------ bounds
NumRuns == 3        \* workflow runs of the one workflow version, created in the order 1, 2, ...
NumWorkers == 2     \* workers able to run the group-key action
MaxSteps == 1       \* step runs a workflow run can have RUNNING at a time
JobRunsPerRun == 2  \* JobRuns of every workflow run
MaxRunsLimit == 2   \* largest max_runs a concurrency policy is given
MaxStamp == 1       \* timestamps a worker can put in a message payload
MaxTime == 3        \* reconciler periods (5 s each) the clock runs for
MaxRedelivery == 1  \* messages the bus holds for a second delivery at a time

Runs == 1..NumRuns
Workers == 1..NumWorkers
Keys == {"A", "B"}
NoKey == ""
NoError == ""
NoWorker == 0
NoTicker == 0
TheTicker == 1
Stamps == 1..MaxStamp

VARIABLES
    strategy,     \* ConcurrencyPolicy.limit_strategy of the workflow version, "NONE" without a policy
    maxRuns,      \* ConcurrencyPolicy.max_runs
    wrStatus,     \* WorkflowRun.status, per run
    stepRuns,     \* number of RUNNING StepRuns, per run
    gkr,          \* the GroupKeyRun row of each run
    workerActive, \* Worker.active, per worker
    tickerUp,     \* whether the store has a ticker to assign
    now,          \* the clock, in reconciler periods
    inbox,        \* WORKFLOW_PROCESSING_QUEUE: messages not delivered yet
    redelivery,   \* messages delivered once that the bus may deliver again
    jobQ,         \* JOB_PROCESSING_QUEUE: JobRun messages outstanding, per run
    cancelQ,      \* JOB_PROCESSING_QUEUE: step-run-cancelled messages outstanding, per run
    dispatcherQ,  \* dispatcher queues: group-key-action-assigned messages <<run, worker>>
    tickerQ,      \* ticker queues: <<ticker, run, "schedule-get-group-key-run-timeout" | "cancel-get-group-key-run-timeout">>
    inflight,     \* the scheduleGetGroupAction calls in progress, per caller and run
    busUp,        \* whether the bus accepts the sends to the dispatcher and ticker queues
    jobQueueUp,   \* whether the bus accepts the sends to JOB_PROCESSING_QUEUE
    rootCtx,      \* the context Start creates: "live" until the cleanup cancels it
    subscribed,   \* whether the bus delivers WORKFLOW_PROCESSING_QUEUE to the controller
    wg,           \* the counter of the WaitGroup of Start
    calls,        \* the invocations of the subscription callback that have not returned
    scheduler,    \* the periodic scheduler: "started" or "stopped"
    shutdown,     \* the cleanup function Start returns: where it is and what it returns
    overdue,      \* history: requeue ticks a GroupKeyRun has been past its schedule timeout for
    last          \* history: the message the latest step handled and the runs it sent messages for

\* the state of Start and of the cleanup function it returns
lifecycle == <<rootCtx, subscribed, wg, calls, scheduler, shutdown>>

vars == <<strategy, maxRuns, wrStatus, stepRuns, gkr, workerActive, tickerUp, now,
          inbox, redelivery, jobQ, cancelQ, dispatcherQ, tickerQ, inflight, busUp, jobQueueUp,
          lifecycle, overdue, last>>

Min(a, b) == IF a <= b THEN a ELSE b

\* who calls scheduleGetGroupAction: the workflow-run-queued handler and the two jobs
Callers == {"admit", "requeue", "reassign"}

\* no call in progress
Idle == [pc |-> "idle", worker |-> 0]

\* the cleanup function has not been called
NotCalled == [pc |-> "idle", err |-> NoError, steps |-> <<>>]

\* the controller after Start: the two jobs registered, the scheduler started, the
\* handler subscribed and no message handed to it yet
Started ==
    /\ rootCtx = "live"
    /\ subscribed = TRUE
    /\ wg = 0
    /\ calls = {}
    /\ scheduler = "started"
    /\ shutdown = NotCalled

\* ------------------------------------------------------------- the store
Terminal == {"SUCCEEDED", "FAILED", "CANCELLED"}

\* UpdateGetGroupKeyRunOpts: a field that is not set is absent
AbsentStr == "<absent>"
AbsentInt == -1
NoOpts == [status |-> AbsentStr, startedAt |-> AbsentInt, finishedAt |-> AbsentInt,
           output |-> AbsentStr, error |-> AbsentStr, cancelledAt |-> AbsentInt,
           cancelledReason |-> AbsentStr, requeueAfter |-> AbsentInt]

SetStr(old, new) == IF new = AbsentStr THEN old ELSE new
SetInt(old, new) == IF new = AbsentInt THEN old ELSE new

\* a status write that does not look at the status of the row
SetStatusAnyRow(old, new) == SetStr(old, new)

\* a status write is a no-op on a row that is already terminal
SetStatus(old, new) == IF old \in Terminal THEN old ELSE SetStr(old, new)

\* an update that sets every field of the patch, whatever the status of the row
UpdateGetGroupKeyRunAnyRow(row, opts) ==
    [row EXCEPT !.status = SetStr(@, opts.status),
                !.startedAt = SetInt(@, opts.startedAt),
                !.finishedAt = SetInt(@, opts.finishedAt),
                !.output = SetStr(@, opts.output),
                !.error = SetStr(@, opts.error),
                !.cancelledAt = SetInt(@, opts.cancelledAt),
                !.cancelledReason = SetStr(@, opts.cancelledReason),
                !.requeueAfter = SetInt(@, opts.requeueAfter)]

\* GetGroupKeyRun().UpdateGetGroupKeyRun: set-if-present on every field of the patch;
\* a patch that writes a terminal status is a no-op on a row that is already terminal
UpdateGetGroupKeyRun(row, opts) ==
    IF row.status \in Terminal /\ opts.status \in Terminal THEN row
    ELSE
    [row EXCEPT !.status = SetStatus(@, opts.status),
                !.startedAt = SetInt(@, opts.startedAt),
                !.finishedAt = SetInt(@, opts.finishedAt),
                !.output = SetStr(@, opts.output),
                !.error = SetStr(@, opts.error),
                !.cancelledAt = SetInt(@, opts.cancelledAt),
                !.cancelledReason = SetStr(@, opts.cancelledReason),
                !.requeueAfter = SetInt(@, opts.requeueAfter)]

\* the workers AssignGetGroupKeyRunToWorker can pick: the active ones
EligibleWorkers == {w \in Workers : workerActive[w]}

\* AssignGetGroupKeyRunToWorker on success: the assignment is recorded on the row
AssignGetGroupKeyRunToWorker(row, w) ==
    [row EXCEPT !.status = SetStatus(@, "ASSIGNED"), !.workerId = w]

\* AssignGetGroupKeyRunToTicker on success
AssignGetGroupKeyRunToTicker(row, t) == [row EXCEPT !.tickerId = t]

\* the group key of a workflow run is the output of its GroupKeyRun
GroupKeyOf(g, r) == g[r].output

RECURSIVE SortAsc(_)
\* runs ordered by createdAt ascending (run ids are in creation order)
SortAsc(S) ==
    IF S = {} THEN <<>>
    ELSE LET m == CHOOSE x \in S : \A y \in S : x <= y
         IN <<m>> \o SortAsc(S \ {m})

Take(s, n) == SubSeq(s, 1, Min(n, Len(s)))

Range(s) == {s[i] : i \in 1..Len(s)}

\* WorkflowRun().ListWorkflowRuns with GroupKey, Status, OrderBy createdAt ASC and Limit
ListWorkflowRuns(g, groupKey, status, limit) ==
    Take(SortAsc({r \in Runs : wrStatus[r] = status /\ GroupKeyOf(g, r) = groupKey}), limit)

\* StepRun().ListStepRuns with Status RUNNING: how many rows it returns
ListStepRuns(r) == stepRuns[r]

\* the position of a QUEUED run among the QUEUED runs of its group key, oldest first
QueuedRank(g, r) ==
    Cardinality({q \in Runs : /\ wrStatus[q] = "QUEUED"
                              /\ GroupKeyOf(g, q) = GroupKeyOf(g, r)
                              /\ q <= r})

RunningCount == Cardinality({r \in Runs : wrStatus[r] = "RUNNING"})

RECURSIVE SortRoundRobin(_, _)
\* QUEUED runs in round-robin order over group keys: by rank within the key, then createdAt
SortRoundRobin(g, S) ==
    IF S = {} THEN <<>>
    ELSE LET m == CHOOSE x \in S : \A y \in S :
                     \/ QueuedRank(g, x) < QueuedRank(g, y)
                     \/ QueuedRank(g, x) = QueuedRank(g, y) /\ x <= y
         IN <<m>> \o SortRoundRobin(g, S \ {m})

\* WorkflowRun().PopWorkflowRunsRoundRobin: the next batch, as many as max_runs leaves free
PopWorkflowRunsRoundRobin(g, limit) ==
    LET queued == {r \in Runs : wrStatus[r] = "QUEUED" /\ GroupKeyOf(g, r) # NoKey}
        free == IF limit > RunningCount THEN limit - RunningCount ELSE 0
    IN Take(SortRoundRobin(g, queued), free)

\* ------------------------------------------------------------------ the bus
\* a message that decodes and validates: the id, the run and the data of its payload,
\* and its timestamp
Message(id, r, data, at) ==
    [id |-> id, run |-> r, data |-> data, at |-> at, form |-> "ok"]

\* the context the subscription callback hands to handleTask, and the one Start creates
\* and hands to the two jobs
HandlerContext == "background"
RootContext == "root"

\* what `last` records of a step that handles m: the message, whether the delivery was
\* its second, the runs messages were sent for, and what the handler returned
Handled(m) ==
    [id |-> m.id, run |-> m.run, data |-> m.data, form |-> m.form,
     again |-> m \in redelivery /\ m \notin redelivery',
     queued |-> {r \in Runs : jobQ'[r] > jobQ[r]},
     cancelled |-> {r \in Runs : cancelQ'[r] > cancelQ[r]},
     err |-> NoError, ctx |-> HandlerContext]

\* `last` after a step that handles no message
NoMessage ==
    [id |-> "", run |-> 0, data |-> "", form |-> "", again |-> FALSE, queued |-> {},
     cancelled |-> {}, err |-> NoError, ctx |-> ""]

\* a delivery of m that the controller's answer settles: the bus drops m
Deliver(m) ==
    /\ m \in inbox
    /\ inbox' = inbox \ {m}
    /\ UNCHANGED <<redelivery, lifecycle>>

\* a delivery of m whose answer the bus loses: it will deliver m once more
DeliverUnsettled(m) ==
    /\ m \in inbox
    /\ Cardinality(redelivery) < MaxRedelivery
    /\ inbox' = inbox \ {m}
    /\ redelivery' = redelivery \cup {m}
    /\ UNCHANGED lifecycle

\* the second delivery of m
Redeliver(m) ==
    /\ m \in redelivery
    /\ redelivery' = redelivery \ {m}
    /\ UNCHANGED <<inbox, lifecycle>>

\* the messages a queue may hold per run in the model
MaxJobMsgs == 2 * JobRunsPerRun
MaxCancelMsgs == 2 * MaxSteps

QueueFits(q, cap) == \A r \in Runs : q[r] <= cap

\* --------------------------------------------------------- admission engine
\* the first loop bounded by max_runs and not by the number of queued rows
CancelInProgressToCancelUpToMaxRuns(g, groupKey) ==
    LET running == ListWorkflowRuns(g, groupKey, "RUNNING", NumRuns)
    IN {running[i] : i \in {j \in 1..Len(running) : ~(j - 1 >= maxRuns)}}

\* queueByCancelInProgress, first loop: the rows of runningWorkflowRuns it cancels
CancelInProgressToCancel(g, groupKey) ==
    LET running == ListWorkflowRuns(g, groupKey, "RUNNING", NumRuns)
        queued == ListWorkflowRuns(g, groupKey, "QUEUED", maxRuns)
    IN {running[i] : i \in {j \in 1..Len(running) : ~(j - 1 >= Len(queued))}}

\* the second loop over a list of QUEUED runs that is not filtered by group key
CancelInProgressToQueueAnyKey(g, groupKey) ==
    LET queued == Take(SortAsc({r \in Runs : wrStatus[r] = "QUEUED"}), maxRuns)
        maxToQueue == Min(maxRuns, Len(queued))
    IN {queued[i] : i \in {j \in 1..Len(queued) : ~(j - 1 >= maxToQueue)}}

\* queueByCancelInProgress, second loop: the rows of queuedWorkflowRuns it queues
CancelInProgressToQueue(g, groupKey) ==
    LET queued == ListWorkflowRuns(g, groupKey, "QUEUED", maxRuns)
        maxToQueue == Min(maxRuns, Len(queued))
    IN {queued[i] : i \in {j \in 1..Len(queued) : ~(j - 1 >= maxToQueue)}}

\* cancelWorkflowRun: one step-run-cancelled message per RUNNING step run, on the
\* queue if the bus accepts it
cancelWorkflowRun(q, r) == [q EXCEPT ![r] = @ + IF jobQueueUp THEN ListStepRuns(r) ELSE 0]

\* cancelWorkflowRun returns the error of a send
cancelWorkflowRunErr(r) ==
    IF ~jobQueueUp /\ ListStepRuns(r) > 0 THEN "could not add message" ELSE NoError

\* a queueWorkflowRunJobs that sends the message of the first JobRun only
queueWorkflowRunJobsFirstOnly(q, r) == [q EXCEPT ![r] = @ + IF jobQueueUp THEN 1 ELSE 0]

\* queueWorkflowRunJobs: one JobRun message per JobRun of the run, on the queue if the
\* bus accepts it
queueWorkflowRunJobs(q, r) == [q EXCEPT ![r] = @ + IF jobQueueUp THEN JobRunsPerRun ELSE 0]

\* queueWorkflowRunJobs returns the `err` it declares before the loop; the error of a
\* send is assigned to the `err` the loop body declares
queueWorkflowRunJobsErr == NoError

RECURSIVE ForEach(_, _, _)
\* the effect of Op(q, r) for every r of S
ForEach(Op(_, _), q, S) ==
    IF S = {} THEN q
    ELSE LET r == CHOOSE x \in S : TRUE IN ForEach(Op, Op(q, r), S \ {r})

queueByCancelInProgress(g, groupKey) ==
    /\ cancelQ' = ForEach(cancelWorkflowRun, cancelQ, CancelInProgressToCancel(g, groupKey))
    /\ jobQ' = ForEach(queueWorkflowRunJobs, jobQ, CancelInProgressToQueue(g, groupKey))
    /\ QueueFits(cancelQ', MaxCancelMsgs) /\ QueueFits(jobQ', MaxJobMsgs)
    /\ UNCHANGED wrStatus

\* what queueByCancelInProgress returns: the error of a cancellation, which ends it
\* before the second loop, or else what queueWorkflowRunJobs returned
queueByCancelInProgressErr(g, groupKey) ==
    IF \E r \in CancelInProgressToCancel(g, groupKey) : cancelWorkflowRunErr(r) # NoError
    THEN "could not cancel workflow runs"
    ELSE queueWorkflowRunJobsErr

queueByGroupRoundRobin(g) ==
    LET popped == Range(PopWorkflowRunsRoundRobin(g, maxRuns))
    IN /\ wrStatus' = [r \in Runs |-> IF r \in popped THEN "RUNNING" ELSE wrStatus[r]]
       /\ jobQ' = ForEach(queueWorkflowRunJobs, jobQ, popped)
       /\ QueueFits(jobQ', MaxJobMsgs)
       /\ UNCHANGED cancelQ

\* what queueByGroupRoundRobin returns: what queueWorkflowRunJobs returned
queueByGroupRoundRobinErr == queueWorkflowRunJobsErr

\* ------------------------------------------------------------------ decoding
\* the ways a message can be malformed: its payload or its metadata does not decode
\* and validate, or its timestamp does not parse
Malformations == {"payload", "metadata", "timestamp"}

\* a decoding that does not parse the timestamp
DecodeErrorUnparsed(m, stamped) ==
    CASE m.form = "payload" -> "could not decode task payload"
      [] m.form = "metadata" -> "could not decode task metadata"
      [] OTHER -> NoError

\* the error of DecodeAndValidate on the payload, then on the metadata, then, in a
\* handler that reads a timestamp, of time.Parse
DecodeError(m, stamped) ==
    CASE m.form = "payload" -> "could not decode task payload"
      [] m.form = "metadata" -> "could not decode task metadata"
      [] m.form = "timestamp" /\ stamped -> "could not parse time"
      [] OTHER -> NoError

\* a handler returns err before its first store call
Rejects(m, err) ==
    /\ UNCHANGED <<strategy, maxRuns, wrStatus, stepRuns, gkr, workerActive, tickerUp, now,
                   jobQ, cancelQ, dispatcherQ, tickerQ, inflight, busUp, jobQueueUp, overdue>>
    /\ last' = [Handled(m) EXCEPT !.err = err]

\* ------------------------------------------------------------------ history
Pending == {"PENDING", "PENDING_ASSIGNMENT"}

\* the schedule timeout of a row is set and lies before time t
PastTimeout(row, t) == row.scheduleTimeoutAt # 0 /\ row.scheduleTimeoutAt < t

\* `overdue` after a step that is no requeue tick and leaves the rows g: the count of
\* ticks spent unassigned starts again once a row is ASSIGNED or RUNNING
Tracked(g) ==
    [r \in Runs |-> IF g[r].status \in {"ASSIGNED", "RUNNING"}
                    THEN [overdue[r] EXCEPT !.pending = 0]
                    ELSE overdue[r]]

\* ----------------------------------------------------------------- handlers
\* the patch handleGroupKeyRunFinished writes
FinishedOpts(m) ==
    [NoOpts EXCEPT !.finishedAt = m.at, !.status = "SUCCEEDED", !.output = m.data]

\* cancelGetGroupKeyRunTimeoutTask, on the queue of the row's ticker
CancelTimeoutTask(row, r) == <<row.tickerId, r, "cancel-get-group-key-run-timeout">>

\* handleGroupKeyRunFinished, for a get-group-key-run-finished message m
handleGroupKeyRunFinished(m) ==
    /\ m.id = "get-group-key-run-finished"
    /\ IF DecodeError(m, TRUE) # NoError
       THEN Rejects(m, DecodeError(m, TRUE))
       ELSE LET groupKeyRun == UpdateGetGroupKeyRun(gkr[m.run], FinishedOpts(m))
                g == [gkr EXCEPT ![m.run] = groupKeyRun]
                engineErr ==
                    CASE strategy = "CANCEL_IN_PROGRESS" -> queueByCancelInProgressErr(g, m.data)
                      [] strategy = "GROUP_ROUND_ROBIN" -> queueByGroupRoundRobinErr
                      [] OTHER -> "unimplemented concurrency limit strategy"
                sendErr == IF busUp THEN NoError
                           ELSE "could not add cancel group key run timeout task to task queue"
            IN /\ gkr' = g
               /\ CASE strategy = "CANCEL_IN_PROGRESS" -> queueByCancelInProgress(g, m.data)
                    [] strategy = "GROUP_ROUND_ROBIN" -> queueByGroupRoundRobin(g)
                    [] OTHER -> UNCHANGED <<wrStatus, jobQ, cancelQ>>
               /\ tickerQ' = IF busUp THEN tickerQ \cup {CancelTimeoutTask(groupKeyRun, m.run)}
                             ELSE tickerQ
               /\ overdue' = Tracked(g)
               /\ UNCHANGED <<inflight, busUp, jobQueueUp>>
               /\ UNCHANGED <<strategy, maxRuns, stepRuns, workerActive, tickerUp, now,
                              dispatcherQ>>
               /\ last' = [Handled(m) EXCEPT
                              !.err = IF engineErr # NoError THEN engineErr ELSE sendErr]

\* a handler of workflow-run-finished that returns before the strategy switch
handleWorkflowRunFinishedNoRelease(m) ==
    /\ m.id = "workflow-run-finished"
    /\ UNCHANGED <<strategy, maxRuns, wrStatus, stepRuns, gkr, workerActive, tickerUp, now,
                   jobQ, cancelQ, dispatcherQ, tickerQ, overdue>>
    /\ UNCHANGED <<inflight, busUp, jobQueueUp>>
    /\ last' = Handled(m)

\* handleWorkflowRunFinished, for a workflow-run-finished message m
handleWorkflowRunFinished(m) ==
    /\ m.id = "workflow-run-finished"
    /\ IF DecodeError(m, FALSE) # NoError
       THEN Rejects(m, DecodeError(m, FALSE))
       ELSE /\ CASE strategy = "GROUP_ROUND_ROBIN" -> queueByGroupRoundRobin(gkr)
                 [] OTHER -> UNCHANGED <<wrStatus, jobQ, cancelQ>>
            /\ UNCHANGED <<inflight, busUp, jobQueueUp>>
            /\ UNCHANGED <<strategy, maxRuns, stepRuns, gkr, workerActive, tickerUp, now,
                           dispatcherQ, tickerQ, overdue>>
            /\ last' = [Handled(m) EXCEPT
                           !.err = IF strategy = "GROUP_ROUND_ROBIN"
                                   THEN queueByGroupRoundRobinErr ELSE NoError]

\* ------------------------------------------------- the controller's surroundings
\* the job controller takes a JobRun message: the run, if still QUEUED, starts
JobRunStarts(r) ==
    /\ UNCHANGED <<inflight, busUp, jobQueueUp, lifecycle>>
    /\ last' = NoMessage
    /\ jobQ[r] > 0
    /\ jobQ' = [jobQ EXCEPT ![r] = @ - 1]
    /\ IF wrStatus[r] = "QUEUED"
       THEN wrStatus' = [wrStatus EXCEPT ![r] = "RUNNING"]
       ELSE UNCHANGED wrStatus
    /\ \E n \in 0..MaxSteps :
          stepRuns' = [stepRuns EXCEPT ![r] = IF wrStatus'[r] = "RUNNING" THEN n ELSE @]
    /\ UNCHANGED <<strategy, maxRuns, gkr, workerActive, tickerUp, now, inbox, redelivery,
                   cancelQ, dispatcherQ, tickerQ, overdue>>

WorkflowRunFinishedTask(r) == Message("workflow-run-finished", r, NoKey, 0)

\* the step controller takes a step-run-cancelled message: the step run is cancelled
\* and, the run being RUNNING, so is the run, which the controller is told
StepRunCancelled(r) ==
    /\ UNCHANGED <<inflight, busUp, jobQueueUp, lifecycle>>
    /\ last' = NoMessage
    /\ cancelQ[r] > 0
    /\ cancelQ' = [cancelQ EXCEPT ![r] = @ - 1]
    /\ stepRuns' = [stepRuns EXCEPT ![r] = IF @ > 0 THEN @ - 1 ELSE 0]
    /\ IF wrStatus[r] = "RUNNING"
       THEN /\ wrStatus' = [wrStatus EXCEPT ![r] = "CANCELLED"]
            /\ inbox' = inbox \cup {WorkflowRunFinishedTask(r)}
       ELSE UNCHANGED <<wrStatus, inbox>>
    /\ UNCHANGED <<strategy, maxRuns, gkr, workerActive, tickerUp, now, redelivery,
                   jobQ, dispatcherQ, tickerQ, overdue>>

\* a RUNNING workflow run completes, which the controller is told
WorkflowRunCompletes(r) ==
    /\ UNCHANGED <<inflight, busUp, jobQueueUp, lifecycle>>
    /\ last' = NoMessage
    /\ wrStatus[r] = "RUNNING"
    /\ wrStatus' = [wrStatus EXCEPT ![r] = "SUCCEEDED"]
    /\ stepRuns' = [stepRuns EXCEPT ![r] = 0]
    /\ inbox' = inbox \cup {WorkflowRunFinishedTask(r)}
    /\ UNCHANGED <<strategy, maxRuns, gkr, workerActive, tickerUp, now, redelivery,
                   jobQ, cancelQ, dispatcherQ, tickerQ, overdue>>

\* ------------------------------------------------------- the admission engine alone
NewRow == [status |-> "PENDING", workerId |-> NoWorker, tickerId |-> NoTicker,
           startedAt |-> 0, finishedAt |-> 0, output |-> NoKey, error |-> NoError,
           cancelledAt |-> 0, cancelledReason |-> "", requeueAfter |-> 0,
           scheduleTimeoutAt |-> 0]

\* every run QUEUED, its group key being computed by a worker that will report it
InitAdmission ==
    /\ strategy \in {"CANCEL_IN_PROGRESS", "GROUP_ROUND_ROBIN"}
    /\ maxRuns \in 1..MaxRunsLimit
    /\ wrStatus = [r \in Runs |-> "QUEUED"]
    /\ stepRuns = [r \in Runs |-> 0]
    /\ gkr = [r \in Runs |-> [NewRow EXCEPT !.status = "RUNNING", !.workerId = 1,
                                            !.tickerId = TheTicker, !.startedAt = 1]]
    /\ workerActive = [w \in Workers |-> TRUE]
    /\ tickerUp = TRUE
    /\ now = 0
    /\ \E k \in [Runs -> Keys] :
          inbox = {Message("get-group-key-run-finished", r, k[r], 1) : r \in Runs}
    /\ redelivery = {}
    /\ jobQ = [r \in Runs |-> 0]
    /\ cancelQ = [r \in Runs |-> 0]
    /\ dispatcherQ = {}
    /\ tickerQ = {}
    /\ inflight = [c \in Callers, r \in Runs |-> Idle]
    /\ busUp = TRUE
    /\ jobQueueUp = TRUE
    /\ Started
    /\ overdue = [r \in Runs |-> [any |-> 0, pending |-> 0]]
    /\ last = NoMessage

GroupKeyRunFinished == \E m \in inbox : Deliver(m) /\ handleGroupKeyRunFinished(m)
WorkflowRunFinished == \E m \in inbox : Deliver(m) /\ handleWorkflowRunFinished(m)
JobController == \E r \in Runs : JobRunStarts(r)
StepController == \E r \in Runs : StepRunCancelled(r)
RunCompletes == \E r \in Runs : WorkflowRunCompletes(r)

NextAdmission ==
    \/ GroupKeyRunFinished
    \/ WorkflowRunFinished
    \/ JobController
    \/ StepController
    \/ RunCompletes

SpecAdmission == InitAdmission /\ [][NextAdmission]_vars

\* --------------------------------------------- round-robin release after a termination
\* every run QUEUED with its group key resolved, and the workflow-run-finished message
\* of an earlier run of the workflow version (run 0) still to be delivered
InitRoundRobin ==
    /\ strategy = "GROUP_ROUND_ROBIN"
    /\ maxRuns \in 1..MaxRunsLimit
    /\ wrStatus = [r \in Runs |-> "QUEUED"]
    /\ stepRuns = [r \in Runs |-> 0]
    /\ \E k \in [Runs -> Keys] :
          gkr = [r \in Runs |-> [NewRow EXCEPT !.status = "SUCCEEDED", !.workerId = 1,
                                                !.tickerId = TheTicker, !.startedAt = 1,
                                                !.finishedAt = 1, !.output = k[r]]]
    /\ workerActive = [w \in Workers |-> TRUE]
    /\ tickerUp = TRUE
    /\ now = 0
    /\ inbox = {WorkflowRunFinishedTask(0)}
    /\ redelivery = {}
    /\ jobQ = [r \in Runs |-> 0]
    /\ cancelQ = [r \in Runs |-> 0]
    /\ dispatcherQ = {}
    /\ tickerQ = {}
    /\ inflight = [c \in Callers, r \in Runs |-> Idle]
    /\ busUp = TRUE
    /\ jobQueueUp = TRUE
    /\ Started
    /\ overdue = [r \in Runs |-> [any |-> 0, pending |-> 0]]
    /\ last = NoMessage

NextRoundRobin ==
    \/ WorkflowRunFinished
    \/ JobController
    \/ RunCompletes

SpecRoundRobin == InitRoundRobin /\ [][NextRoundRobin]_vars

\* ------------------------------------------------------- group-key scheduler
\* the worker AssignGetGroupKeyRunToWorker answers with: an active one, or none
WorkerChoices == IF EligibleWorkers = {} THEN {NoWorker} ELSE EligibleWorkers

\* getGroupActionTask: group-key-action-assigned for run r, naming worker w
getGroupActionTask(r, w) == <<r, w>>

\* scheduleGetGroupKeyRunTimeoutTask, on the queue of the ticker
scheduleGetGroupKeyRunTimeoutTask(r) == <<TheTicker, r, "schedule-get-group-key-run-timeout">>

\* scheduleGetGroupAction: the row it leaves when the store answers the worker
\* assignment with w (NoWorker: ErrNoWorkerAvailable)
scheduleGetGroupActionRow(row, w) ==
    LET updated == UpdateGetGroupKeyRun(row, [NoOpts EXCEPT !.status = "PENDING_ASSIGNMENT"])
    IN IF w = NoWorker THEN updated
       ELSE IF ~tickerUp THEN AssignGetGroupKeyRunToWorker(updated, w)
       ELSE AssignGetGroupKeyRunToTicker(AssignGetGroupKeyRunToWorker(updated, w), TheTicker)

\* scheduleGetGroupAction makes its two sends: a worker and a ticker were assigned and
\* the bus accepts the first send
scheduleGetGroupActionSends(w) == w # NoWorker /\ tickerUp /\ busUp

\* a scheduleGetGroupAction that returns ErrNoWorkerAvailable as it does any other error
scheduleGetGroupActionErrNoWorkerToo(w) ==
    IF w = NoWorker THEN "could not assign get group key run to worker"
    ELSE IF ~tickerUp THEN "could not assign get group key run to ticker"
    ELSE IF ~busUp THEN "could not add job assigned task to task queue"
    ELSE NoError

\* what scheduleGetGroupAction returns: ErrNoWorkerAvailable is no error
scheduleGetGroupActionErr(w) ==
    IF w = NoWorker THEN NoError
    ELSE IF ~tickerUp THEN "could not assign get group key run to ticker"
    ELSE IF ~busUp THEN "could not add job assigned task to task queue"
    ELSE NoError

\* scheduleGetGroupAction for the GroupKeyRun of run r, whose row is `row`
scheduleGetGroupAction(r, row, w) ==
    /\ gkr' = [gkr EXCEPT ![r] = scheduleGetGroupActionRow(row, w)]
    /\ IF scheduleGetGroupActionSends(w)
       THEN /\ dispatcherQ' = dispatcherQ \cup {getGroupActionTask(r, w)}
            /\ tickerQ' = tickerQ \cup {scheduleGetGroupKeyRunTimeoutTask(r)}
       ELSE UNCHANGED <<dispatcherQ, tickerQ>>

\* handleWorkflowRunQueued, for a workflow-run-queued message m
handleWorkflowRunQueued(m) ==
    /\ m.id = "workflow-run-queued"
    /\ IF DecodeError(m, FALSE) # NoError
       THEN Rejects(m, DecodeError(m, FALSE))
       ELSE /\ UNCHANGED <<strategy, maxRuns, wrStatus, stepRuns, workerActive, tickerUp, now,
                           cancelQ>>
            /\ UNCHANGED <<inflight, busUp, jobQueueUp>>
            /\ IF strategy # "NONE"
               THEN \E w \in WorkerChoices :
                       /\ scheduleGetGroupAction(m.run, gkr[m.run], w)
                       /\ UNCHANGED jobQ
                       /\ last' = [Handled(m) EXCEPT !.err = scheduleGetGroupActionErr(w)]
               ELSE /\ jobQ' = queueWorkflowRunJobs(jobQ, m.run)
                    /\ QueueFits(jobQ', MaxJobMsgs)
                    /\ UNCHANGED <<gkr, dispatcherQ, tickerQ>>
                    /\ last' = [Handled(m) EXCEPT !.err = queueWorkflowRunJobsErr]
            /\ overdue' = Tracked(gkr')

\* the patch handleGroupKeyRunStarted writes
StartedOpts(m) == [NoOpts EXCEPT !.startedAt = m.at, !.status = "RUNNING"]

\* handleGroupKeyRunStarted, for a get-group-key-run-started message m
handleGroupKeyRunStarted(m) ==
    /\ m.id = "get-group-key-run-started"
    /\ IF DecodeError(m, TRUE) # NoError
       THEN Rejects(m, DecodeError(m, TRUE))
       ELSE /\ gkr' = [gkr EXCEPT ![m.run] = UpdateGetGroupKeyRun(@, StartedOpts(m))]
            /\ overdue' = Tracked(gkr')
            /\ UNCHANGED <<strategy, maxRuns, wrStatus, stepRuns, workerActive, tickerUp, now,
                           jobQ, cancelQ, dispatcherQ, tickerQ>>
            /\ UNCHANGED <<inflight, busUp, jobQueueUp>>
            /\ last' = Handled(m)

\* the patch handleGroupKeyRunFailed writes
FailedOpts(m) == [NoOpts EXCEPT !.finishedAt = m.at, !.status = "FAILED", !.error = m.data]

\* a handler of get-group-key-run-failed that enqueues the JobRuns of the run
handleGroupKeyRunFailedReleasing(m) ==
    /\ m.id = "get-group-key-run-failed"
    /\ LET groupKeyRun == UpdateGetGroupKeyRun(gkr[m.run], FailedOpts(m))
           g == [gkr EXCEPT ![m.run] = groupKeyRun]
       IN /\ gkr' = g
          /\ jobQ' = queueWorkflowRunJobs(jobQ, m.run)
          /\ QueueFits(jobQ', MaxJobMsgs)
          /\ tickerQ' = IF busUp THEN tickerQ \cup {CancelTimeoutTask(groupKeyRun, m.run)}
                        ELSE tickerQ
          /\ overdue' = Tracked(g)
          /\ UNCHANGED <<strategy, maxRuns, wrStatus, stepRuns, workerActive, tickerUp, now,
                         cancelQ, dispatcherQ, inflight, busUp, jobQueueUp>>
          /\ last' = Handled(m)

\* handleGroupKeyRunFailed, for a get-group-key-run-failed message m
handleGroupKeyRunFailed(m) ==
    /\ m.id = "get-group-key-run-failed"
    /\ IF DecodeError(m, TRUE) # NoError
       THEN Rejects(m, DecodeError(m, TRUE))
       ELSE LET groupKeyRun == UpdateGetGroupKeyRun(gkr[m.run], FailedOpts(m))
            IN /\ gkr' = [gkr EXCEPT ![m.run] = groupKeyRun]
               /\ tickerQ' = IF busUp THEN tickerQ \cup {CancelTimeoutTask(groupKeyRun, m.run)}
                             ELSE tickerQ
               /\ overdue' = Tracked(gkr')
               /\ UNCHANGED <<strategy, maxRuns, wrStatus, stepRuns, workerActive, tickerUp,
                              now, jobQ, cancelQ, dispatcherQ>>
               /\ UNCHANGED <<inflight, busUp, jobQueueUp>>
               /\ last' = [Handled(m) EXCEPT
                              !.err = IF busUp THEN NoError
                                      ELSE "could not add cancel group key run timeout task to task queue"]

\* ------------------------------------------------------------- reconciler
\* isTimedOut with the comparison the other way round
isTimedOutAfter(row, t) == row.scheduleTimeoutAt # 0 /\ row.scheduleTimeoutAt > t

\* isTimedOut of runGetGroupKeyRunRequeueTenant, at time t
isTimedOut(row, t) == row.scheduleTimeoutAt # 0 /\ row.scheduleTimeoutAt < t

\* ListGetGroupKeyRunsToRequeue at time t: the unassigned rows whose requeue_after
\* has passed; a row whose requeue_after is t itself is listed or not
ListGetGroupKeyRunsToRequeue(t) ==
    LET due == {r \in Runs : gkr[r].status \in Pending /\ gkr[r].requeueAfter < t}
        onTime == {r \in Runs : gkr[r].status \in Pending /\ gkr[r].requeueAfter = t}
    IN {due \cup S : S \in SUBSET onTime}

\* the patch of a scheduling timeout
TimedOutOpts(t) ==
    [NoOpts EXCEPT !.cancelledAt = t, !.cancelledReason = "SCHEDULING_TIMED_OUT",
                   !.status = "CANCELLED"]

\* a subtask that bumps requeue_after before it looks at the schedule timeout
RequeueRowBumpsFirst(row, t, w) ==
    LET bumped == UpdateGetGroupKeyRun(row, [NoOpts EXCEPT !.requeueAfter = t + 1])
    IN IF isTimedOut(row, t)
       THEN UpdateGetGroupKeyRun(bumped, TimedOutOpts(t))
       ELSE scheduleGetGroupActionRow(bumped, w)

\* runGetGroupKeyRunRequeueTenant, one listed row at time t: the row it leaves
RequeueRow(row, t, w) ==
    IF isTimedOut(row, t)
    THEN UpdateGetGroupKeyRun(row, TimedOutOpts(t))
    ELSE scheduleGetGroupActionRow(
             UpdateGetGroupKeyRun(row, [NoOpts EXCEPT !.requeueAfter = t + 1]), w)

\* `overdue` after a requeue tick at time t that leaves the rows g
Ticked(g, t) ==
    [r \in Runs |->
        IF g[r].status \in Terminal \/ ~PastTimeout(g[r], t) THEN overdue[r]
        ELSE [any |-> Min(overdue[r].any + 1, 2),
              pending |-> IF g[r].status \in Pending
                          THEN Min(overdue[r].pending + 1, 2) ELSE 0]]

\* `last` after a tick of a reconciler job
Tick(job) == [NoMessage EXCEPT !.id = job, !.ctx = RootContext]

\* runGetGroupKeyRunRequeue: one tick, a period after the previous one
runGetGroupKeyRunRequeue ==
    /\ now < MaxTime
    /\ now' = now + 1
    /\ \E listed \in ListGetGroupKeyRunsToRequeue(now') : \E pick \in [listed -> WorkerChoices] :
          LET sent == {r \in listed : ~isTimedOut(gkr[r], now')
                                       /\ scheduleGetGroupActionSends(pick[r])}
          IN /\ gkr' = [r \in Runs |-> IF r \in listed
                                       THEN RequeueRow(gkr[r], now', pick[r]) ELSE gkr[r]]
             /\ dispatcherQ' = dispatcherQ \cup {getGroupActionTask(r, pick[r]) : r \in sent}
             /\ tickerQ' = tickerQ \cup {scheduleGetGroupKeyRunTimeoutTask(r) : r \in sent}
    /\ overdue' = Ticked(gkr', now')
    /\ UNCHANGED <<inflight, busUp, jobQueueUp, lifecycle>>
    /\ last' = Tick("get-group-key-run-requeue")
    /\ UNCHANGED <<strategy, maxRuns, wrStatus, stepRuns, workerActive, tickerUp,
                   inbox, redelivery, jobQ, cancelQ>>

\* ListGetGroupKeyRunsToReassign: the assigned rows whose worker is inactive
ListGetGroupKeyRunsToReassign ==
    {r \in Runs : /\ gkr[r].status \in {"ASSIGNED", "RUNNING"}
                  /\ gkr[r].workerId # NoWorker
                  /\ ~workerActive[gkr[r].workerId]}

\* a subtask that bumps requeue_after and leaves the status as it is
ReassignRowKeepsStatus(row, t, w) ==
    LET bumped == UpdateGetGroupKeyRun(row, [NoOpts EXCEPT !.requeueAfter = t + 1])
    IN IF w = NoWorker THEN bumped
       ELSE IF ~tickerUp THEN AssignGetGroupKeyRunToWorker(bumped, w)
       ELSE AssignGetGroupKeyRunToTicker(AssignGetGroupKeyRunToWorker(bumped, w), TheTicker)

\* runGetGroupKeyRunReassignTenant, one listed row at time t: the row it leaves
ReassignRow(row, t, w) ==
    scheduleGetGroupActionRow(
        UpdateGetGroupKeyRun(row, [NoOpts EXCEPT !.requeueAfter = t + 1,
                                                 !.status = "PENDING_ASSIGNMENT"]), w)

\* runGetGroupKeyRunReassign: one tick
runGetGroupKeyRunReassign ==
    /\ \E pick \in [ListGetGroupKeyRunsToReassign -> WorkerChoices] :
          LET listed == ListGetGroupKeyRunsToReassign
              sent == {r \in listed : scheduleGetGroupActionSends(pick[r])}
          IN /\ gkr' = [r \in Runs |-> IF r \in listed
                                       THEN ReassignRow(gkr[r], now, pick[r]) ELSE gkr[r]]
             /\ dispatcherQ' = dispatcherQ \cup {getGroupActionTask(r, pick[r]) : r \in sent}
             /\ tickerQ' = tickerQ \cup {scheduleGetGroupKeyRunTimeoutTask(r) : r \in sent}
    /\ overdue' = Tracked(gkr')
    /\ UNCHANGED <<inflight, busUp, jobQueueUp, lifecycle>>
    /\ last' = Tick("get-group-key-run-reassign")
    /\ UNCHANGED <<strategy, maxRuns, wrStatus, stepRuns, workerActive, tickerUp, now,
                   inbox, redelivery, jobQ, cancelQ>>

\* ------------------------------------------- workers, ticker and the bus
\* the group key the action computes for run r
GroupKeyFor(r) == IF r % 2 = 1 THEN "A" ELSE "B"

\* worker w takes group-key-action-assigned for run r, reports the start and then
\* the outcome: the group key, or an error
WorkerRuns(r, w) ==
    /\ getGroupActionTask(r, w) \in dispatcherQ
    /\ workerActive[w]
    /\ dispatcherQ' = dispatcherQ \ {getGroupActionTask(r, w)}
    /\ \E at \in Stamps :
          \E outcome \in {Message("get-group-key-run-finished", r, GroupKeyFor(r), at),
                          Message("get-group-key-run-failed", r, "error", at)} :
              inbox' = inbox \cup {Message("get-group-key-run-started", r, "", at), outcome}
    /\ UNCHANGED <<inflight, busUp, jobQueueUp, lifecycle>>
    /\ last' = NoMessage
    /\ UNCHANGED <<strategy, maxRuns, wrStatus, stepRuns, gkr, workerActive, tickerUp, now,
                   redelivery, jobQ, cancelQ, tickerQ, overdue>>

\* a worker stops sending heartbeats, or sends them again
WorkerActivity(w) ==
    /\ workerActive' = [workerActive EXCEPT ![w] = ~@]
    /\ UNCHANGED <<inflight, busUp, jobQueueUp, lifecycle>>
    /\ last' = NoMessage
    /\ UNCHANGED <<strategy, maxRuns, wrStatus, stepRuns, gkr, tickerUp, now, inbox,
                   redelivery, jobQ, cancelQ, dispatcherQ, tickerQ, overdue>>

\* the store loses its last active ticker, or has one again
TickerActivity ==
    /\ tickerUp' = ~tickerUp
    /\ UNCHANGED <<inflight, busUp, jobQueueUp, lifecycle>>
    /\ last' = NoMessage
    /\ UNCHANGED <<strategy, maxRuns, wrStatus, stepRuns, gkr, workerActive, now, inbox,
                   redelivery, jobQ, cancelQ, dispatcherQ, tickerQ, overdue>>

\* the bus delivers at least once: a first delivery, settled or not, or a second one
Delivery(m) == Deliver(m) \/ DeliverUnsettled(m) \/ Redeliver(m)

\* --------------------------------------------- the life of a GroupKeyRun
NumLive == 1   \* runs whose GroupKeyRun is still to be scheduled
LiveRuns == 1..NumLive

\* the row of a run that has completed
DoneRow == [NewRow EXCEPT !.status = "SUCCEEDED", !.workerId = 1, !.tickerId = TheTicker,
                          !.startedAt = 1, !.finishedAt = 1, !.output = "A"]

\* the clock of a controller that has one more period to run
LastPeriod == MaxTime - 1

InitGroupKey ==
    /\ strategy = "GROUP_ROUND_ROBIN"
    /\ maxRuns = 1
    /\ wrStatus = [r \in Runs |-> IF r \in LiveRuns THEN "QUEUED" ELSE "SUCCEEDED"]
    /\ stepRuns = [r \in Runs |-> 0]
    /\ \E timeout \in [LiveRuns -> 0..1] :
          gkr = [r \in Runs |-> IF r \in LiveRuns
                                THEN [NewRow EXCEPT !.scheduleTimeoutAt = timeout[r]]
                                ELSE DoneRow]
    /\ workerActive \in [Workers -> BOOLEAN]
    /\ tickerUp \in BOOLEAN
    /\ now = LastPeriod
    /\ inbox = {Message("workflow-run-queued", r, "", 0) : r \in LiveRuns}
    /\ redelivery = {}
    /\ jobQ = [r \in Runs |-> 0]
    /\ cancelQ = [r \in Runs |-> 0]
    /\ dispatcherQ = {}
    /\ tickerQ = {}
    /\ inflight = [c \in Callers, r \in Runs |-> Idle]
    /\ busUp = TRUE
    /\ jobQueueUp = TRUE
    /\ Started
    /\ overdue = [r \in Runs |-> [any |-> 0, pending |-> 0]]
    /\ last = NoMessage

\* as InitGroupKey, with the clock at its start
InitRequeue ==
    /\ strategy = "GROUP_ROUND_ROBIN"
    /\ maxRuns = 1
    /\ wrStatus = [r \in Runs |-> IF r \in LiveRuns THEN "QUEUED" ELSE "SUCCEEDED"]
    /\ stepRuns = [r \in Runs |-> 0]
    /\ \E timeout \in [LiveRuns -> 0..1] :
          gkr = [r \in Runs |-> IF r \in LiveRuns
                                THEN [NewRow EXCEPT !.scheduleTimeoutAt = timeout[r]]
                                ELSE DoneRow]
    /\ workerActive \in [Workers -> BOOLEAN]
    /\ tickerUp \in BOOLEAN
    /\ now = 0
    /\ inbox = {Message("workflow-run-queued", r, "", 0) : r \in LiveRuns}
    /\ redelivery = {}
    /\ jobQ = [r \in Runs |-> 0]
    /\ cancelQ = [r \in Runs |-> 0]
    /\ dispatcherQ = {}
    /\ tickerQ = {}
    /\ inflight = [c \in Callers, r \in Runs |-> Idle]
    /\ busUp = TRUE
    /\ jobQueueUp = TRUE
    /\ Started
    /\ overdue = [r \in Runs |-> [any |-> 0, pending |-> 0]]
    /\ last = NoMessage

WorkflowRunQueued ==
    \E m \in inbox \cup redelivery : Delivery(m) /\ handleWorkflowRunQueued(m)
GroupKeyRunStarted ==
    \E m \in inbox \cup redelivery : Delivery(m) /\ handleGroupKeyRunStarted(m)
GroupKeyRunSucceeded ==
    \E m \in inbox \cup redelivery : Delivery(m) /\ handleGroupKeyRunFinished(m)
GroupKeyRunFailed ==
    \E m \in inbox \cup redelivery : Delivery(m) /\ handleGroupKeyRunFailed(m)
WorkerTakesAction == \E r \in Runs, w \in Workers : WorkerRuns(r, w)
WorkerHeartbeats == \E w \in Workers : WorkerActivity(w)

NextGroupKey ==
    \/ WorkflowRunQueued
    \/ GroupKeyRunStarted
    \/ GroupKeyRunSucceeded
    \/ GroupKeyRunFailed
    \/ runGetGroupKeyRunRequeue
    \/ runGetGroupKeyRunReassign
    \/ WorkerTakesAction
    \/ WorkerHeartbeats
    \/ TickerActivity

SpecGroupKey == InitGroupKey /\ [][NextGroupKey]_vars

\* ------------------------------------------------- the requeue job over time
\* every message is delivered once
WorkflowRunQueuedOnce == \E m \in inbox : Deliver(m) /\ handleWorkflowRunQueued(m)
GroupKeyRunStartedOnce == \E m \in inbox : Deliver(m) /\ handleGroupKeyRunStarted(m)
GroupKeyRunFailedOnce == \E m \in inbox : Deliver(m) /\ handleGroupKeyRunFailed(m)

NextRequeue ==
    \/ WorkflowRunQueuedOnce
    \/ GroupKeyRunStartedOnce
    \/ GroupKeyRunFinished
    \/ GroupKeyRunFailedOnce
    \/ runGetGroupKeyRunRequeue
    \/ runGetGroupKeyRunReassign
    \/ WorkerTakesAction
    \/ WorkerHeartbeats
    \/ TickerActivity

SpecRequeue == InitRequeue /\ [][NextRequeue]_vars

\* ------------------------------ scheduleGetGroupAction, store call by store call
\* the call of caller c for run r is at the step named pc
At(c, r, pc) == inflight[c, r].pc = pc

\* the call moves on to step pc
Goto(c, r, pc) == inflight' = [inflight EXCEPT ![c, r].pc = pc]

\* an errgroup whose first error ends every subtask of the caller
ReturnsErrorToAll(c, r) ==
    inflight' = [cc \in Callers, rr \in Runs |-> IF cc = c THEN Idle ELSE inflight[cc, rr]]

\* the call returns an error: errgroup.Group keeps the first error for Wait and lets the
\* other subtasks run
ReturnsError(c, r) == inflight' = [inflight EXCEPT ![c, r] = Idle]

\* every variable a store call or send of a call in progress leaves alone, but the row
\* and the queues; `last` names the step and the run
ScheduleFrame(step, r) ==
    /\ UNCHANGED <<strategy, maxRuns, wrStatus, stepRuns, workerActive, tickerUp, now,
                   inbox, redelivery, jobQ, cancelQ, busUp, jobQueueUp, lifecycle, overdue>>
    /\ last' = [NoMessage EXCEPT !.id = step, !.run = r]

\* handleWorkflowRunQueued up to its call of scheduleGetGroupAction
AdmitEnters ==
    \E m \in inbox :
        /\ m.id = "workflow-run-queued"
        /\ strategy # "NONE"
        /\ At("admit", m.run, "idle")
        /\ Deliver(m)
        /\ Goto("admit", m.run, "update")
        /\ UNCHANGED <<strategy, maxRuns, wrStatus, stepRuns, gkr, workerActive, tickerUp, now,
                       jobQ, cancelQ, dispatcherQ, tickerQ, busUp, jobQueueUp, overdue>>
        /\ last' = Handled(m)

\* runGetGroupKeyRunRequeueTenant lists the rows to requeue and starts a subtask for each
RequeueLists ==
    /\ \A r \in Runs : At("requeue", r, "idle")
    /\ now < MaxTime
    /\ now' = now + 1
    /\ \E listed \in ListGetGroupKeyRunsToRequeue(now') :
          inflight' = [c \in Callers, r \in Runs |->
                          IF c = "requeue" /\ r \in listed
                          THEN [inflight[c, r] EXCEPT !.pc = "listed"] ELSE inflight[c, r]]
    /\ UNCHANGED <<strategy, maxRuns, wrStatus, stepRuns, gkr, workerActive, tickerUp,
                   inbox, redelivery, jobQ, cancelQ, dispatcherQ, tickerQ, busUp, jobQueueUp, lifecycle,
                   overdue>>
    /\ last' = Tick("get-group-key-run-requeue")

\* the subtask of the requeue job for run r, up to its call of scheduleGetGroupAction
RequeueSubtask(r) ==
    /\ At("requeue", r, "listed")
    /\ IF isTimedOut(gkr[r], now)
       THEN /\ gkr' = [gkr EXCEPT ![r] = UpdateGetGroupKeyRun(@, TimedOutOpts(now))]
            /\ Goto("requeue", r, "idle")
       ELSE /\ gkr' = [gkr EXCEPT ![r] =
                          UpdateGetGroupKeyRun(@, [NoOpts EXCEPT !.requeueAfter = now + 1])]
            /\ Goto("requeue", r, "update")
    /\ UNCHANGED <<dispatcherQ, tickerQ>>
    /\ ScheduleFrame("requeue-subtask", r)

\* runGetGroupKeyRunReassignTenant lists the rows to reassign and starts a subtask for each
ReassignLists ==
    /\ \A r \in Runs : At("reassign", r, "idle")
    /\ ListGetGroupKeyRunsToReassign # {}
    /\ inflight' = [c \in Callers, r \in Runs |->
                       IF c = "reassign" /\ r \in ListGetGroupKeyRunsToReassign
                       THEN [inflight[c, r] EXCEPT !.pc = "listed"] ELSE inflight[c, r]]
    /\ UNCHANGED <<strategy, maxRuns, wrStatus, stepRuns, gkr, workerActive, tickerUp, now,
                   inbox, redelivery, jobQ, cancelQ, dispatcherQ, tickerQ, busUp, jobQueueUp, lifecycle,
                   overdue>>
    /\ last' = Tick("get-group-key-run-reassign")

\* the subtask of the reassign job for run r, up to its call of scheduleGetGroupAction
ReassignSubtask(r) ==
    /\ At("reassign", r, "listed")
    /\ gkr' = [gkr EXCEPT ![r] =
                  UpdateGetGroupKeyRun(@, [NoOpts EXCEPT !.requeueAfter = now + 1,
                                                         !.status = "PENDING_ASSIGNMENT"])]
    /\ Goto("reassign", r, "update")
    /\ UNCHANGED <<dispatcherQ, tickerQ>>
    /\ ScheduleFrame("reassign-subtask", r)

\* scheduleGetGroupAction: UpdateGetGroupKeyRun with status PENDING_ASSIGNMENT
ScheduleUpdates(c, r) ==
    /\ At(c, r, "update")
    /\ gkr' = [gkr EXCEPT ![r] =
                  UpdateGetGroupKeyRun(@, [NoOpts EXCEPT !.status = "PENDING_ASSIGNMENT"])]
    /\ Goto(c, r, "assignWorker")
    /\ UNCHANGED <<dispatcherQ, tickerQ>>
    /\ ScheduleFrame("schedule-update", r)

\* scheduleGetGroupAction: AssignGetGroupKeyRunToWorker; without a worker it returns
ScheduleAssignsWorker(c, r) ==
    /\ At(c, r, "assignWorker")
    /\ \E w \in WorkerChoices :
          IF w = NoWorker
          THEN /\ Goto(c, r, "idle")
               /\ UNCHANGED gkr
          ELSE /\ gkr' = [gkr EXCEPT ![r] = AssignGetGroupKeyRunToWorker(@, w)]
               /\ inflight' = [inflight EXCEPT ![c, r] = [pc |-> "assignTicker", worker |-> w]]
    /\ UNCHANGED <<dispatcherQ, tickerQ>>
    /\ ScheduleFrame("schedule-assign-worker", r)

\* scheduleGetGroupAction: AssignGetGroupKeyRunToTicker; on an error it returns
ScheduleAssignsTicker(c, r) ==
    /\ At(c, r, "assignTicker")
    /\ IF tickerUp
       THEN /\ gkr' = [gkr EXCEPT ![r] = AssignGetGroupKeyRunToTicker(@, TheTicker)]
            /\ Goto(c, r, "sendDispatch")
       ELSE /\ ReturnsError(c, r)
            /\ UNCHANGED gkr
    /\ UNCHANGED <<dispatcherQ, tickerQ>>
    /\ ScheduleFrame("schedule-assign-ticker", r)

\* scheduleGetGroupAction: the send to the dispatcher; on an error it returns
ScheduleSendsDispatch(c, r) ==
    /\ At(c, r, "sendDispatch")
    /\ IF busUp
       THEN /\ dispatcherQ' = dispatcherQ \cup {getGroupActionTask(r, inflight[c, r].worker)}
            /\ Goto(c, r, "sendTimeout")
       ELSE /\ ReturnsError(c, r)
            /\ UNCHANGED dispatcherQ
    /\ UNCHANGED <<gkr, tickerQ>>
    /\ ScheduleFrame("schedule-send-dispatch", r)

\* scheduleGetGroupAction: the send to the ticker, and the return
ScheduleSendsTimeout(c, r) ==
    /\ At(c, r, "sendTimeout")
    /\ IF busUp
       THEN /\ tickerQ' = tickerQ \cup {scheduleGetGroupKeyRunTimeoutTask(r)}
            /\ inflight' = [inflight EXCEPT ![c, r] = Idle]
       ELSE /\ ReturnsError(c, r)
            /\ UNCHANGED tickerQ
    /\ UNCHANGED <<gkr, dispatcherQ>>
    /\ ScheduleFrame("schedule-send-timeout", r)

\* a worker stops sending heartbeats
WorkerStops(w) ==
    /\ workerActive[w]
    /\ WorkerActivity(w)

RequeueRuns == \E r \in Runs : RequeueSubtask(r)
ReassignRuns == \E r \in Runs : ReassignSubtask(r)
ScheduleUpdate == \E c \in Callers, r \in Runs : ScheduleUpdates(c, r)
ScheduleAssignWorker == \E c \in Callers, r \in Runs : ScheduleAssignsWorker(c, r)
ScheduleAssignTicker == \E c \in Callers, r \in Runs : ScheduleAssignsTicker(c, r)
ScheduleSendDispatch == \E c \in Callers, r \in Runs : ScheduleSendsDispatch(c, r)
ScheduleSendTimeout == \E c \in Callers, r \in Runs : ScheduleSendsTimeout(c, r)
WorkerLost == \E w \in Workers : WorkerStops(w)

NextSchedule ==
    \/ AdmitEnters
    \/ RequeueLists
    \/ RequeueRuns
    \/ ReassignLists
    \/ ReassignRuns
    \/ ScheduleUpdate
    \/ ScheduleAssignWorker
    \/ ScheduleAssignTicker
    \/ ScheduleSendDispatch
    \/ ScheduleSendTimeout
    \/ GroupKeyRunStartedOnce
    \/ GroupKeyRunFinished
    \/ GroupKeyRunFailedOnce
    \/ WorkerTakesAction
    \/ WorkerLost

SpecSchedule == InitGroupKey /\ [][NextSchedule]_vars

\* ------------------------------------------- the controller on a bus that can fail
\* a workflow run whose workflow version has no concurrency policy has no GroupKeyRun
AbsentRow == [NewRow EXCEPT !.status = "NONE"]

\* the bus stops accepting the controller's sends to the dispatcher and ticker queues,
\* or accepts them again
BusActivity ==
    /\ busUp' = ~busUp
    /\ last' = NoMessage
    /\ UNCHANGED <<strategy, maxRuns, wrStatus, stepRuns, gkr, workerActive, tickerUp, now,
                   inbox, redelivery, jobQ, cancelQ, dispatcherQ, tickerQ, inflight,
                   jobQueueUp, lifecycle, overdue>>

\* the bus stops accepting the controller's sends to JOB_PROCESSING_QUEUE, or accepts
\* them again
JobQueueActivity ==
    /\ jobQueueUp' = ~jobQueueUp
    /\ last' = NoMessage
    /\ UNCHANGED <<strategy, maxRuns, wrStatus, stepRuns, gkr, workerActive, tickerUp, now,
                   inbox, redelivery, jobQ, cancelQ, dispatcherQ, tickerQ, inflight,
                   busUp, lifecycle, overdue>>

\* every run QUEUED: without a concurrency policy its workflow-run-queued message is
\* to be delivered, with one the message of the worker that computed its group key
InitBus ==
    /\ strategy \in {"NONE", "CANCEL_IN_PROGRESS", "GROUP_ROUND_ROBIN"}
    /\ maxRuns \in 1..MaxRunsLimit
    /\ wrStatus = [r \in Runs |-> "QUEUED"]
    /\ stepRuns = [r \in Runs |-> 0]
    /\ gkr = [r \in Runs |->
                 IF strategy = "NONE" THEN AbsentRow
                 ELSE [NewRow EXCEPT !.status = "RUNNING", !.workerId = 1,
                                     !.tickerId = TheTicker, !.startedAt = 1]]
    /\ workerActive = [w \in Workers |-> TRUE]
    /\ tickerUp = TRUE
    /\ now = 0
    /\ inbox = IF strategy = "NONE"
               THEN {Message("workflow-run-queued", r, "", 0) : r \in Runs}
               ELSE {Message("get-group-key-run-finished", r, GroupKeyFor(r), 1) : r \in Runs}
    /\ redelivery = {}
    /\ jobQ = [r \in Runs |-> 0]
    /\ cancelQ = [r \in Runs |-> 0]
    /\ dispatcherQ = {}
    /\ tickerQ = {}
    /\ inflight = [c \in Callers, r \in Runs |-> Idle]
    /\ busUp \in BOOLEAN
    /\ jobQueueUp \in BOOLEAN
    /\ Started
    /\ overdue = [r \in Runs |-> [any |-> 0, pending |-> 0]]
    /\ last = NoMessage

NextBus ==
    \/ WorkflowRunQueuedOnce
    \/ GroupKeyRunFinished
    \/ WorkflowRunFinished
    \/ JobController
    \/ StepController
    \/ RunCompletes
    \/ BusActivity
    \/ JobQueueActivity

SpecBus == InitBus /\ [][NextBus]_vars

\* ------------------------------------------ the controller from Start to its cleanup
MaxCalls == 2   \* invocations of the subscription callback in progress at a time

\* the ids of the dispatch table of handleTask
TaskIds == {"workflow-run-queued", "get-group-key-run-started", "get-group-key-run-finished",
            "get-group-key-run-failed", "workflow-run-finished"}

\* the handlers that parse a timestamp of the payload
Stamped == {"get-group-key-run-started", "get-group-key-run-finished",
            "get-group-key-run-failed"}

\* the messages for run r that a handler cannot decode, and one whose id no handler has
MalformedMessages(r) ==
    {[Message(id, r, "", 1) EXCEPT !.form = f] :
        id \in TaskIds, f \in {"payload", "metadata"}}
    \cup {[Message(id, r, "", 1) EXCEPT !.form = "timestamp"] : id \in Stamped}
    \cup {Message("unknown-task", r, "", 1)}

\* handleTask: the switch on the id of the message
handleTask(m) ==
    \/ handleWorkflowRunQueued(m)
    \/ handleGroupKeyRunStarted(m)
    \/ handleGroupKeyRunFinished(m)
    \/ handleGroupKeyRunFailed(m)
    \/ handleWorkflowRunFinished(m)
    \/ /\ m.id \notin TaskIds
       /\ Rejects(m, "unknown task")

\* the invocation c of the subscription callback moves on to pc
CallGoto(c, pc) == calls' = (calls \ {c}) \cup {[c EXCEPT !.pc = pc]}

\* the bus hands a message of the queue to the subscription callback, which it runs
\* concurrently with the other invocations and with the cleanup
BusCalls(m) ==
    /\ subscribed
    /\ m \in inbox
    /\ Cardinality(calls) < MaxCalls
    /\ inbox' = inbox \ {m}
    /\ calls' = calls \cup {[task |-> m, pc |-> "handed"]}
    /\ last' = NoMessage
    /\ UNCHANGED <<strategy, maxRuns, wrStatus, stepRuns, gkr, workerActive, tickerUp, now,
                   redelivery, jobQ, cancelQ, dispatcherQ, tickerQ, inflight, busUp, jobQueueUp,
                   rootCtx, subscribed, wg, scheduler, shutdown, overdue>>

\* the callback: wg.Add(1)
CallAdds(c) ==
    /\ c \in calls /\ c.pc = "handed"
    /\ wg' = wg + 1
    /\ CallGoto(c, "added")
    /\ last' = NoMessage
    /\ UNCHANGED <<strategy, maxRuns, wrStatus, stepRuns, gkr, workerActive, tickerUp, now,
                   inbox, redelivery, jobQ, cancelQ, dispatcherQ, tickerQ, inflight, busUp, jobQueueUp,
                   rootCtx, subscribed, scheduler, shutdown, overdue>>

\* the callback: handleTask(context.Background(), task)
CallHandles(c) ==
    /\ c \in calls /\ c.pc = "added"
    /\ handleTask(c.task)
    /\ CallGoto(c, "handled")
    /\ UNCHANGED <<inbox, redelivery, rootCtx, subscribed, wg, scheduler, shutdown>>

\* the callback: the deferred wg.Done(), and the return
CallReturns(c) ==
    /\ c \in calls /\ c.pc = "handled"
    /\ wg' = wg - 1
    /\ calls' = calls \ {c}
    /\ last' = NoMessage
    /\ UNCHANGED <<strategy, maxRuns, wrStatus, stepRuns, gkr, workerActive, tickerUp, now,
                   inbox, redelivery, jobQ, cancelQ, dispatcherQ, tickerQ, inflight, busUp, jobQueueUp,
                   rootCtx, subscribed, scheduler, shutdown, overdue>>

\* what a step of the cleanup leaves alone
CleanupFrame ==
    /\ last' = NoMessage
    /\ UNCHANGED <<strategy, maxRuns, wrStatus, stepRuns, gkr, workerActive, tickerUp, now,
                   inbox, redelivery, jobQ, cancelQ, dispatcherQ, tickerQ, inflight, busUp, jobQueueUp,
                   calls, overdue>>

\* the cleanup moves on to pc, or returns err, having taken the step named
CleanupGoto(pc, err, step) ==
    shutdown' = [pc |-> pc, err |-> err, steps |-> Append(shutdown.steps, step)]

\* cleanup: cancel()
CleanupCancels ==
    /\ shutdown.pc = "idle"
    /\ rootCtx' = "cancelled"
    /\ CleanupGoto("unsubscribe", NoError, "cancel")
    /\ UNCHANGED <<subscribed, wg, scheduler>>
    /\ CleanupFrame

\* cleanup: cleanupQueue(), which the bus answers with success or with an error; on
\* an error the cleanup returns
CleanupUnsubscribes ==
    /\ shutdown.pc = "unsubscribe"
    /\ \/ /\ subscribed' = FALSE
          /\ CleanupGoto("wait", NoError, "unsubscribe")
       \/ /\ UNCHANGED subscribed
          /\ CleanupGoto("returned", "could not cleanup queue", "unsubscribe")
    /\ UNCHANGED <<rootCtx, wg, scheduler>>
    /\ CleanupFrame

\* cleanup: wg.Wait(), which returns when the counter is zero
CleanupWaits ==
    /\ shutdown.pc = "wait"
    /\ wg = 0
    /\ CleanupGoto("stop", NoError, "wait")
    /\ UNCHANGED <<rootCtx, subscribed, wg, scheduler>>
    /\ CleanupFrame

\* cleanup: wc.s.Shutdown(), and the return
CleanupStopsScheduler ==
    /\ shutdown.pc = "stop"
    /\ \/ /\ scheduler' = "stopped"
          /\ CleanupGoto("returned", NoError, "stop")
       \/ /\ UNCHANGED scheduler
          /\ CleanupGoto("returned", "could not shutdown scheduler", "stop")
    /\ UNCHANGED <<rootCtx, subscribed, wg>>
    /\ CleanupFrame

\* the scheduler runs the requeue job while it is started; the ticks of the model are
\* those before the root context is cancelled
RequeueJobRuns ==
    /\ scheduler = "started" /\ rootCtx = "live"
    /\ runGetGroupKeyRunRequeue

\* the scheduler runs the reassign job likewise
ReassignJobRuns ==
    /\ scheduler = "started" /\ rootCtx = "live"
    /\ runGetGroupKeyRunReassign

\* the row of a GroupKeyRun that a worker is computing the key of
RunningRow == [NewRow EXCEPT !.status = "RUNNING", !.workerId = 1, !.tickerId = TheTicker,
                             !.startedAt = 1]

\* run 1 is to be admitted, the worker of run 2 reports the start and the outcome of
\* its group-key action, run 3 has completed; the queue holds their messages and one
\* malformed message
InitController ==
    /\ strategy = "GROUP_ROUND_ROBIN"
    /\ maxRuns = 1
    /\ wrStatus = [r \in Runs |-> IF r = 3 THEN "SUCCEEDED" ELSE "QUEUED"]
    /\ stepRuns = [r \in Runs |-> 0]
    /\ gkr = [r \in Runs |-> CASE r = 1 -> NewRow [] r = 2 -> RunningRow [] OTHER -> DoneRow]
    /\ workerActive = [w \in Workers |-> TRUE]
    /\ tickerUp = TRUE
    /\ now = LastPeriod
    /\ \E outcome \in {Message("get-group-key-run-finished", 2, GroupKeyFor(2), 1),
                        Message("get-group-key-run-failed", 2, "error", 1)} :
          \E bad \in MalformedMessages(2) :
              inbox = {Message("workflow-run-queued", 1, "", 0),
                       Message("get-group-key-run-started", 2, "", 1),
                       outcome, WorkflowRunFinishedTask(3), bad}
    /\ redelivery = {}
    /\ jobQ = [r \in Runs |-> 0]
    /\ cancelQ = [r \in Runs |-> 0]
    /\ dispatcherQ = {}
    /\ tickerQ = {}
    /\ inflight = [c \in Callers, r \in Runs |-> Idle]
    /\ busUp = TRUE
    /\ jobQueueUp = TRUE
    /\ Started
    /\ overdue = [r \in Runs |-> [any |-> 0, pending |-> 0]]
    /\ last = NoMessage

CallbackStarts == \E m \in inbox : BusCalls(m)
CallbackAdds == \E c \in calls : CallAdds(c)
CallbackHandles == \E c \in calls : CallHandles(c)
CallbackReturns == \E c \in calls : CallReturns(c)

NextController ==
    \/ CallbackStarts
    \/ CallbackAdds
    \/ CallbackHandles
    \/ CallbackReturns
    \/ RequeueJobRuns
    \/ ReassignJobRuns
    \/ CleanupCancels
    \/ CleanupUnsubscribes
    \/ CleanupWaits
    \/ CleanupStopsScheduler

SpecController == InitController /\ [][NextController]_vars

\* ------------------------------------ the admission engine under duplicate deliveries
\* every run QUEUED, its group key reported by a message the bus may deliver twice
InitDuplicate ==
    /\ strategy \in {"CANCEL_IN_PROGRESS", "GROUP_ROUND_ROBIN"}
    /\ maxRuns \in 1..MaxRunsLimit
    /\ wrStatus = [r \in Runs |-> "QUEUED"]
    /\ stepRuns = [r \in Runs |-> 0]
    /\ gkr = [r \in Runs |-> [NewRow EXCEPT !.status = "RUNNING", !.workerId = 1,
                                            !.tickerId = TheTicker, !.startedAt = 1]]
    /\ workerActive = [w \in Workers |-> TRUE]
    /\ tickerUp = TRUE
    /\ now = 0
    /\ inbox = {Message("get-group-key-run-finished", r, GroupKeyFor(r), 1) : r \in Runs}
    /\ redelivery = {}
    /\ jobQ = [r \in Runs |-> 0]
    /\ cancelQ = [r \in Runs |-> 0]
    /\ dispatcherQ = {}
    /\ tickerQ = {}
    /\ inflight = [c \in Callers, r \in Runs |-> Idle]
    /\ busUp = TRUE
    /\ jobQueueUp = TRUE
    /\ Started
    /\ overdue = [r \in Runs |-> [any |-> 0, pending |-> 0]]
    /\ last = NoMessage

NextDuplicate ==
    \/ GroupKeyRunSucceeded
    \/ WorkflowRunFinished
    \/ JobController
    \/ StepController
    \/ RunCompletes

SpecDuplicate == InitDuplicate /\ [][NextDuplicate]_vars

\* --------------------------------- scheduling over time, the jobs running for ever
\* the bus drops m once the handler has returned nil and holds it for another delivery
\* when the handler has returned an error
DeliverAnswered(m) ==
    /\ m \in inbox
    /\ inbox' = IF last'.err = NoError THEN inbox \ {m} ELSE inbox
    /\ UNCHANGED <<redelivery, lifecycle>>

\* the clock read from a later origin: the jobs compare requeue_after with the time of
\* their tick, so one period is taken off both
Rebase ==
    /\ now = MaxTime
    /\ now' = now - 1
    /\ gkr' = [r \in Runs |-> [gkr[r] EXCEPT !.requeueAfter = IF @ > 0 THEN @ - 1 ELSE 0]]
    /\ last' = NoMessage
    /\ UNCHANGED <<strategy, maxRuns, wrStatus, stepRuns, workerActive, tickerUp, inbox,
                   redelivery, jobQ, cancelQ, dispatcherQ, tickerQ, inflight, busUp, jobQueueUp,
                   lifecycle, overdue>>

\* a GroupKeyRun to schedule that has no schedule timeout; workers, ticker and bus
\* available or not
InitDispatch ==
    /\ strategy = "GROUP_ROUND_ROBIN"
    /\ maxRuns = 1
    /\ wrStatus = [r \in Runs |-> IF r \in LiveRuns THEN "QUEUED" ELSE "SUCCEEDED"]
    /\ stepRuns = [r \in Runs |-> 0]
    /\ gkr = [r \in Runs |-> IF r \in LiveRuns THEN NewRow ELSE DoneRow]
    /\ workerActive \in [Workers -> BOOLEAN]
    /\ tickerUp \in BOOLEAN
    /\ now = 0
    /\ inbox = {Message("workflow-run-queued", r, "", 0) : r \in LiveRuns}
    /\ redelivery = {}
    /\ jobQ = [r \in Runs |-> 0]
    /\ cancelQ = [r \in Runs |-> 0]
    /\ dispatcherQ = {}
    /\ tickerQ = {}
    /\ inflight = [c \in Callers, r \in Runs |-> Idle]
    /\ busUp \in BOOLEAN
    /\ jobQueueUp = TRUE
    /\ Started
    /\ overdue = [r \in Runs |-> [any |-> 0, pending |-> 0]]
    /\ last = NoMessage

WorkflowRunQueuedAnswered ==
    \E m \in inbox : handleWorkflowRunQueued(m) /\ DeliverAnswered(m)

NextDispatch ==
    \/ WorkflowRunQueuedAnswered
    \/ runGetGroupKeyRunRequeue
    \/ runGetGroupKeyRunReassign
    \/ Rebase
    \/ WorkerHeartbeats
    \/ TickerActivity
    \/ BusActivity

\* the scheduler runs each job every period, and the bus delivers what it holds
FairDispatch ==
    /\ WF_vars(WorkflowRunQueuedAnswered)
    /\ WF_vars(runGetGroupKeyRunRequeue)
    /\ WF_vars(runGetGroupKeyRunReassign)
    /\ WF_vars(Rebase)

SpecDispatch == InitDispatch /\ [][NextDispatch]_vars /\ FairDispatch

\* ------------------------------- the requeue job over time, subtask by subtask
\* two GroupKeyRuns to schedule; workers, ticker and bus available or not
InitReconcile ==
    /\ strategy = "GROUP_ROUND_ROBIN"
    /\ maxRuns = 1
    /\ wrStatus = [r \in Runs |-> IF r = NumRuns THEN "SUCCEEDED" ELSE "QUEUED"]
    /\ stepRuns = [r \in Runs |-> 0]
    /\ gkr = [r \in Runs |-> IF r = NumRuns THEN DoneRow ELSE NewRow]
    /\ workerActive \in [Workers -> BOOLEAN]
    /\ tickerUp \in BOOLEAN
    /\ now = 0
    /\ inbox = {}
    /\ redelivery = {}
    /\ jobQ = [r \in Runs |-> 0]
    /\ cancelQ = [r \in Runs |-> 0]
    /\ dispatcherQ = {}
    /\ tickerQ = {}
    /\ inflight = [c \in Callers, r \in Runs |-> Idle]
    /\ busUp \in BOOLEAN
    /\ jobQueueUp = TRUE
    /\ Started
    /\ overdue = [r \in Runs |-> [any |-> 0, pending |-> 0]]
    /\ last = NoMessage

RequeueSchedules(r) ==
    \/ ScheduleUpdates("requeue", r)
    \/ ScheduleAssignsWorker("requeue", r)
    \/ ScheduleAssignsTicker("requeue", r)
    \/ ScheduleSendsDispatch("requeue", r)
    \/ ScheduleSendsTimeout("requeue", r)

RequeueSchedule == \E r \in Runs : RequeueSchedules(r)

NextReconcile ==
    \/ RequeueLists
    \/ RequeueRuns
    \/ RequeueSchedule
    \/ Rebase
    \/ TickerActivity
    \/ BusActivity

\* the scheduler starts the job every period and every subtask runs on
FairReconcile ==
    /\ WF_vars(RequeueLists)
    /\ WF_vars(Rebase)
    /\ \A r \in Runs : WF_vars(RequeueSubtask(r)) /\ WF_vars(RequeueSchedules(r))

SpecReconcile == InitReconcile /\ [][NextReconcile]_vars /\ FairReconcile

\* ------------------------------------------------------------------ claims
\* no handler is in flight (handlers are single steps) and no message is undelivered
Quiescent ==
    /\ inbox = {} /\ redelivery = {}
    /\ \A r \in Runs : jobQ[r] = 0 /\ cancelQ[r] = 0

\* the runs of group key k that have status st, the group keys being those of g
RunsOf(g, k, st) == {r \in Runs : wrStatus[r] = st /\ g[r].output = k}

\* how many runs of S were created before r
OlderIn(S, r) == Cardinality({x \in S : x < r})

\* C1: in every quiescent state the RUNNING workflow runs of a group key number
\* at most max_runs
C1_RunningWithinMaxRuns ==
    Quiescent => \A k \in Keys : Cardinality(RunsOf(gkr, k, "RUNNING")) <= maxRuns

\* the step is one admission pass of CANCEL_IN_PROGRESS
CancelInProgressPass ==
    strategy = "CANCEL_IN_PROGRESS" /\ last'.id = "get-group-key-run-finished"

\* C7: a CANCEL_IN_PROGRESS pass sends, for each of the min(|R|, |Q|) oldest RUNNING
\* runs of the group key, one step-run-cancelled message per RUNNING step run, and
\* none for any other run (Q: the QUEUED runs of the key, at most max_runs of them)
C7_CancelsOldestRunning ==
    [][CancelInProgressPass =>
        LET k == last'.data
            R == RunsOf(gkr', k, "RUNNING")
            Q == RunsOf(gkr', k, "QUEUED")
            n == Min(Cardinality(R), Min(Cardinality(Q), maxRuns))
        IN \A r \in Runs :
              cancelQ'[r] - cancelQ[r] =
                  IF r \in R /\ OlderIn(R, r) < n THEN stepRuns[r] ELSE 0]_vars

\* a pass has just cancelled an older RUNNING run and left a younger one of the key alone
C7_Witness ==
    /\ strategy = "CANCEL_IN_PROGRESS" /\ last.id = "get-group-key-run-finished"
    /\ \E r1, r2 \in Runs :
          /\ r1 < r2 /\ gkr[r1].output = gkr[r2].output
          /\ wrStatus[r1] = "RUNNING" /\ wrStatus[r2] = "RUNNING"
          /\ r1 \in last.cancelled /\ r2 \notin last.cancelled

\* C8: a CANCEL_IN_PROGRESS pass sends one JobRun message per JobRun for each of the
\* first max_runs QUEUED runs of the group key, in creation order, and none for any
\* other run
C8_ReleasesOldestQueued ==
    [][CancelInProgressPass =>
        LET k == last'.data
            Q == RunsOf(gkr', k, "QUEUED")
        IN \A r \in Runs :
              jobQ'[r] - jobQ[r] =
                  IF r \in Q /\ OlderIn(Q, r) < maxRuns THEN JobRunsPerRun ELSE 0]_vars

\* a pass has just released an older QUEUED run and not a younger one of the key
C8_Witness ==
    /\ strategy = "CANCEL_IN_PROGRESS" /\ last.id = "get-group-key-run-finished"
    /\ \E r1, r2 \in Runs :
          /\ r1 < r2 /\ gkr[r1].output = gkr[r2].output
          /\ wrStatus[r1] = "QUEUED" /\ wrStatus[r2] = "QUEUED"
          /\ r1 \in last.queued /\ r2 \notin last.queued

KeysInUse == {gkr[r].output : r \in Runs} \ {NoKey}
RunsWithKey(k) == {r \in Runs : gkr[r].output = k}
Released == {r \in Runs : wrStatus[r] # "QUEUED"}

\* C9: under GROUP_ROUND_ROBIN, with every group key holding at least max_runs QUEUED
\* runs at the start, the first K x max_runs runs released hold exactly max_runs of
\* each of the K keys, oldest first within a key; stated of every prefix of them: no
\* key has more than max_runs released, and no run is released before an older one
\* of its key
C9_RoundRobinFairShare ==
    (/\ \A k \in KeysInUse : Cardinality(RunsWithKey(k)) >= maxRuns
     /\ Cardinality(Released) <= Cardinality(KeysInUse) * maxRuns)
    => \A k \in KeysInUse :
          /\ Cardinality(Released \cap RunsWithKey(k)) <= maxRuns
          /\ \A r \in Released \cap RunsWithKey(k) :
                \A q \in RunsWithKey(k) : q < r => q \in Released

\* the step is a delivery of workflow-run-finished
WorkflowRunFinishedStep == last'.id = "workflow-run-finished"

QueuedWithKey == {r \in Runs : wrStatus[r] = "QUEUED" /\ gkr[r].output # NoKey}

\* GROUP_ROUND_ROBIN has offered the free capacity: no run waits while there is room
RoundRobinOffered == QueuedWithKey = {} \/ RunningCount >= maxRuns

\* CANCEL_IN_PROGRESS has released the QUEUED runs of group key k: the oldest has
\* its JobRun messages
CancelInProgressOffered(k) ==
    \A r \in RunsOf(gkr, k, "QUEUED") :
        OlderIn(RunsOf(gkr, k, "QUEUED"), r) = 0 => jobQ[r] > 0

FinishedKeyOffered == CancelInProgressOffered(gkr[last.run].output)

StatusRank(st) ==
    CASE st = "PENDING" -> 0
      [] st = "PENDING_ASSIGNMENT" -> 1
      [] st = "ASSIGNED" -> 2
      [] st = "RUNNING" -> 3
      [] OTHER -> 4

\* C3: a GroupKeyRun moves backwards in the order PENDING, PENDING_ASSIGNMENT, ASSIGNED,
\* RUNNING, terminal only in a tick of the reassign job that lists it, that is, from
\* ASSIGNED or RUNNING with an inactive worker
C3_BackwardOnlyByReassign ==
    [][\A r \in Runs :
          StatusRank(gkr'[r].status) < StatusRank(gkr[r].status)
          => /\ last'.id = "get-group-key-run-reassign"
             /\ r \in ListGetGroupKeyRunsToReassign]_vars

\* the step is the second delivery of a get-group-key-run-finished or -failed message
SecondTerminalDelivery ==
    /\ last'.again
    /\ last'.id \in {"get-group-key-run-finished", "get-group-key-run-failed"}

\* C4: the second delivery of a get-group-key-run-finished or get-group-key-run-failed
\* message leaves the status, finished-at, output and error of the GroupKeyRun as the
\* first delivery left them
C4_SecondDeliveryKeepsRow ==
    [][SecondTerminalDelivery =>
        LET before == gkr[last'.run]
            after == gkr'[last'.run]
        IN /\ after.status = before.status
           /\ after.finishedAt = before.finishedAt
           /\ after.output = before.output
           /\ after.error = before.error]_vars

\* a get-group-key-run-finished message has just been delivered for the second time
\* to a GroupKeyRun that another outcome had been reported for as well
C4_Witness ==
    /\ last.again /\ last.id = "get-group-key-run-finished"
    /\ gkr[last.run].status \in Terminal
    /\ gkr[last.run].finishedAt # 0

C6_AssignedHasWorkerAndTicker ==
    \A r \in Runs :
        gkr[r].status \in {"ASSIGNED", "RUNNING"}
        => gkr[r].workerId # NoWorker /\ gkr[r].tickerId # NoTicker

NoWorkerAvailableStep ==
    /\ last'.id = "workflow-run-queued" /\ last'.form = "ok"
    /\ strategy # "NONE"
    /\ EligibleWorkers = {}

\* the messages of scheduleGetGroupAction on the ticker queues
TimeoutTasks == {t \in tickerQ : t[3] = "schedule-get-group-key-run-timeout"}

\* no row is assigned a worker or a ticker and none of the two messages of
\* scheduleGetGroupAction is sent
NothingAssignedOrSent ==
    /\ \A r \in Runs : gkr'[r].workerId = gkr[r].workerId /\ gkr'[r].tickerId = gkr[r].tickerId
    /\ dispatcherQ' = dispatcherQ
    /\ TimeoutTasks' = TimeoutTasks

Enqueues ==
    CASE last'.id = "workflow-run-queued" /\ last'.form = "ok" /\ strategy = "NONE" ->
             {last'.run}
      [] last'.id \in {"get-group-key-run-finished", "workflow-run-finished"}
         /\ last'.form = "ok" /\ strategy = "GROUP_ROUND_ROBIN" ->
             {r \in Runs : wrStatus[r] = "QUEUED" /\ wrStatus'[r] = "RUNNING"}
      [] last'.id = "get-group-key-run-finished" /\ last'.form = "ok"
         /\ strategy = "CANCEL_IN_PROGRESS" ->
             CancelInProgressToQueue(gkr', last'.data)
      [] OTHER -> {}

\* C12: a handler that enqueues the JobRuns of a run while the bus refuses the sends
\* returns an error
C12_EnqueueFailureSurfaces ==
    [][(~jobQueueUp /\ Enqueues # {}) => last'.err # NoError]_vars

\* the step is a delivery of workflow-run-queued for a run without a concurrency policy
NoPolicyAdmission ==
    last'.id = "workflow-run-queued" /\ last'.form = "ok" /\ strategy = "NONE"

\* C16: a workflow-run-queued delivery for a run without a concurrency policy sends one
\* message per JobRun of that run on JOB_PROCESSING_QUEUE, each of them on the queue if
\* the bus accepts it, and nothing else: it writes no GroupKeyRun and no workflow run,
\* and sends nothing to a dispatcher, to a ticker or to cancel a step run
C16_NoPolicyOnlyEnqueues ==
    [][NoPolicyAdmission =>
          /\ \A r \in Runs :
                jobQ'[r] - jobQ[r] = IF r = last'.run /\ jobQueueUp THEN JobRunsPerRun ELSE 0
          /\ UNCHANGED <<gkr, wrStatus, stepRuns, cancelQ, dispatcherQ, tickerQ>>]_vars

\* a run without a concurrency policy has just been admitted: its JobRun messages, one
\* per JobRun, are on the queue and it has no GroupKeyRun
C16_Witness ==
    /\ last.id = "workflow-run-queued" /\ strategy = "NONE"
    /\ last.queued = {last.run}
    /\ jobQ[last.run] = JobRunsPerRun
    /\ gkr[last.run] = AbsentRow

\* the four steps of the cleanup, in order
FourSteps == <<"cancel", "unsubscribe", "wait", "stop">>

\* C13: a cleanup that has returned has cancelled the root context, unsubscribed from
\* the queue, waited for the handlers in progress and stopped the scheduler, in this
\* order, whatever step returned an error
C13_ShutdownRunsAllSteps ==
    shutdown.pc = "returned" => shutdown.steps = FourSteps

\* C14: when the cleanup has returned without an error, no invocation of the
\* subscription callback that the bus started before the unsubscribe is in progress
C14_ShutdownWaitsForHandlers ==
    (shutdown.pc = "returned" /\ shutdown.err = NoError) => calls = {}

\* the step is a handler that sends a message
HandlerSends ==
    /\ last'.id \in TaskIds
    /\ \/ jobQ' # jobQ \/ cancelQ' # cancelQ
       \/ dispatcherQ' # dispatcherQ \/ tickerQ' # tickerQ

\* C15: once the cleanup has cancelled the root context, every send of a handler is
\* made with the root context, that is, with a cancelled context
C15_HandlerSendsUnderRootContext ==
    [][(rootCtx = "cancelled" /\ HandlerSends) => last'.ctx = RootContext]_vars

\* the message handled is malformed
Malformed(l) == l.form # "" /\ (l.id \notin TaskIds \/ l.form \in Malformations)

\* C17: the delivery of a malformed message (an id outside the dispatch table, a
\* payload or metadata that does not decode, a timestamp that does not parse) returns an
\* error, writes nothing to the store and sends nothing
C17_MalformedRejected ==
    [][Malformed(last') =>
          /\ last'.err # NoError
          /\ UNCHANGED <<wrStatus, stepRuns, gkr, jobQ, cancelQ, dispatcherQ, tickerQ>>]_vars

\* a message whose timestamp does not parse has just been rejected
C17_Witness ==
    /\ last.form = "timestamp" /\ last.id \in Stamped
    /\ last.err # NoError
    /\ gkr[last.run] = RunningRow

\* the dispatch message of the current assignment of run r is on the dispatcher's queue
DispatchSent(r) ==
    /\ gkr[r].workerId # NoWorker
    /\ getGroupActionTask(r, gkr[r].workerId) \in dispatcherQ

\* C20: scheduleGetGroupAction sends the schedule-get-group-key-run-timeout message
\* before the group-key-action-assigned message: a GroupKeyRun whose dispatch message
\* has been sent has its timeout message sent as well
C20_TimeoutSentBeforeDispatch ==
    \A r \in Runs : DispatchSent(r) => scheduleGetGroupKeyRunTimeoutTask(r) \in tickerQ

\* C18: the second delivery of a get-group-key-run-finished message does not run the
\* admission engine again: it sends no step-run-cancelled message and no JobRun message,
\* and releases no run
C18_SecondDeliveryNoOp ==
    [][(last'.again /\ last'.id = "get-group-key-run-finished")
          => UNCHANGED <<wrStatus, jobQ, cancelQ>>]_vars

\* from now on a worker is active, the ticker can be assigned and the bus accepts sends
Available == EligibleWorkers # {} /\ tickerUp /\ busUp

\* a group-key-action-assigned message has been sent for run r
Dispatched(r) == \E w \in Workers : getGroupActionTask(r, w) \in dispatcherQ

\* C19: a GroupKeyRun that is not terminal and has no schedule timeout in the past is
\* eventually dispatched once a worker stays active, the ticker assignable and the bus
\* accepting sends, whatever its earlier scheduling attempts ended in
C19_EventuallyDispatched ==
    \A r \in LiveRuns :
        <>[](Available /\ gkr[r].status \notin Terminal) => <>Dispatched(r)

\* the step is a tick of the requeue job
RequeueTick == last'.id = "get-group-key-run-requeue"

\* the step sends a group-key-action-assigned or a schedule timeout message for run r
SendsFor(r) ==
    \/ \E w \in Workers : getGroupActionTask(r, w) \in dispatcherQ' \ dispatcherQ
    \/ scheduleGetGroupKeyRunTimeoutTask(r) \in tickerQ' \ tickerQ

\* the row of run r as the scheduling timeout at time t leaves it
TimedOutRow(row, t) ==
    [row EXCEPT !.status = "CANCELLED", !.cancelledAt = t,
                !.cancelledReason = "SCHEDULING_TIMED_OUT"]

\* C21: a tick of the requeue job that lists a GroupKeyRun with its schedule timeout in
\* the past writes CANCELLED, cancelled_at and SCHEDULING_TIMED_OUT and nothing else:
\* requeue_after, worker and ticker stay as they were and no message is sent for it
C21_TimedOutOnlyCancelled ==
    [][\A r \in Runs :
          (RequeueTick /\ gkr[r].status \in Pending /\ isTimedOut(gkr[r], now'))
          => /\ gkr'[r] \in {gkr[r], TimedOutRow(gkr[r], now')}
             /\ gkr[r].requeueAfter < now' => gkr'[r] = TimedOutRow(gkr[r], now')
             /\ ~SendsFor(r)]_vars

\* the requeue job has just cancelled a GroupKeyRun for its schedule timeout
C21_Witness ==
    /\ last.id = "get-group-key-run-requeue"
    /\ \E r \in Runs :
          /\ gkr[r].status = "CANCELLED" /\ gkr[r].cancelledAt = now
          /\ gkr[r].cancelledReason = "SCHEDULING_TIMED_OUT"
          /\ gkr[r].workerId = NoWorker /\ gkr[r].tickerId = NoTicker

\* the step is a tick of the reassign job
ReassignTick == last'.id = "get-group-key-run-reassign"

\* C22: a tick of the reassign job sets every GroupKeyRun that is ASSIGNED or RUNNING
\* on an inactive worker to PENDING_ASSIGNMENT, bumps its requeue_after and schedules
\* it: a group-key-action-assigned message it sends names the newly assigned worker,
\* which is not the inactive one, and without a worker the row stays PENDING_ASSIGNMENT
\* and no message is sent for it
C22_ReassignedToAnotherWorker ==
    [][\A r \in Runs :
          (ReassignTick /\ r \in ListGetGroupKeyRunsToReassign)
          => /\ gkr'[r].requeueAfter = now + 1
             /\ gkr'[r].status \in {"PENDING_ASSIGNMENT", "ASSIGNED"}
             /\ \A w \in Workers :
                   getGroupActionTask(r, w) \in dispatcherQ' \ dispatcherQ
                   => /\ w # gkr[r].workerId
                      /\ gkr'[r].workerId = w /\ gkr'[r].status = "ASSIGNED"
             /\ EligibleWorkers = {}
                   => gkr'[r].status = "PENDING_ASSIGNMENT" /\ ~SendsFor(r)]_vars

\* the reassign job has just dispatched a GroupKeyRun to a second worker, the message
\* for its first, inactive worker still on the queue
C22_Witness ==
    /\ last.id = "get-group-key-run-reassign"
    /\ \E r \in Runs, old \in Workers :
          /\ old # gkr[r].workerId /\ ~workerActive[old]
          /\ getGroupActionTask(r, old) \in dispatcherQ
          /\ getGroupActionTask(r, gkr[r].workerId) \in dispatcherQ
          /\ gkr[r].status = "ASSIGNED" /\ gkr[r].requeueAfter = now + 1

\* the step is a store call or a send of scheduleGetGroupAction that returns an error
SubtaskFails ==
    \/ last'.id = "schedule-assign-ticker" /\ ~tickerUp
    \/ last'.id \in {"schedule-send-dispatch", "schedule-send-timeout"} /\ ~busUp

\* the subtasks the step moves
Moved == {cr \in Callers \X Runs : inflight'[cr[1], cr[2]] # inflight[cr[1], cr[2]]}

\* C23: the failure of one subtask of a reconciler tick ends that subtask alone; every
\* other subtask of the tick runs until it returns, and the job ticks again
C23_FailureLeavesSiblings ==
    /\ [][SubtaskFails => Cardinality(Moved) = 1]_vars
    /\ \A r \in Runs : ~At("requeue", r, "idle") ~> At("requeue", r, "idle")
    /\ []<>(last.id = "get-group-key-run-requeue")

\* a subtask of the requeue job has just failed on its ticker assignment while another
\* subtask of the same tick is still to assign its worker
C23_Witness ==
    /\ last.id = "schedule-assign-ticker" /\ ~tickerUp
    /\ At("requeue", last.run, "idle") /\ gkr[last.run].tickerId = NoTicker
    /\ \E r \in Runs : r # last.run /\ At("requeue", r, "assignWorker")

\* the step is a delivery of a get-group-key-run-finished message that decodes
FinishStep == last'.id = "get-group-key-run-finished" /\ last'.form = "ok"

\* the runs whose step runs the admission pass of the step is to cancel
Cancels ==
    IF strategy = "CANCEL_IN_PROGRESS"
    THEN {r \in CancelInProgressToCancel(gkr', last'.data) : ListStepRuns(r) > 0}
    ELSE {}

\* the cancel-get-group-key-run-timeout message of the step is on the ticker's queue
CancelTimeoutSent == CancelTimeoutTask(gkr'[last'.run], last'.run) \in tickerQ'

\* the admission pass of the step sent every message it was to send
ReleaseDone ==
    /\ \A r \in Enqueues : jobQ'[r] = jobQ[r] + JobRunsPerRun
    /\ \A r \in Cancels : cancelQ'[r] = cancelQ[r] + ListStepRuns(r)

\* C24: the finish handler attempts the admission release and the send of the
\* cancel-get-group-key-run-timeout message independently: the message is sent whenever
\* the ticker's queue accepts it, the release is made whenever JOB_PROCESSING_QUEUE
\* accepts its messages, and the handler returns an error if either failed
C24_ReleaseAndCancelIndependent ==
    [][FinishStep =>
          /\ busUp => CancelTimeoutSent
          /\ jobQueueUp => ReleaseDone
          /\ (~CancelTimeoutSent \/ ~ReleaseDone) => last'.err # NoError]_vars

\* the step is a delivery of a get-group-key-run-failed message that decodes
FailStep == last'.id = "get-group-key-run-failed" /\ last'.form = "ok"

\* C25: a get-group-key-run-failed delivery sets a GroupKeyRun that is not terminal yet
\* to FAILED with the error of the payload, sends the one
\* cancel-get-group-key-run-timeout message and leaves the workflow run as it is: no
\* run is released or cancelled, no JobRun, step-run-cancelled or dispatch message sent
C25_FailedLeavesWorkflowRun ==
    [][FailStep =>
          LET r == last'.run
          IN /\ gkr[r].status \notin Terminal
                   => gkr'[r].status = "FAILED" /\ gkr'[r].error = last'.data
             /\ \A x \in Runs \ {r} : gkr'[x] = gkr[x]
             /\ busUp => /\ CancelTimeoutTask(gkr'[r], r) \in tickerQ'
                         /\ tickerQ' \ tickerQ \subseteq {CancelTimeoutTask(gkr'[r], r)}
             /\ UNCHANGED <<wrStatus, stepRuns, jobQ, cancelQ, dispatcherQ>>]_vars

\* a get-group-key-run-failed message has just been delivered: the GroupKeyRun is
\* FAILED, its cancel-timeout message sent and its workflow run still QUEUED
C25_Witness ==
    /\ last.id = "get-group-key-run-failed" /\ last.form = "ok"
    /\ gkr[last.run].status = "FAILED" /\ gkr[last.run].error = last.data
    /\ CancelTimeoutTask(gkr[last.run], last.run) \in tickerQ
    /\ wrStatus[last.run] = "QUEUED" /\ jobQ[last.run] = 0

\* the active workers a group-key-action-assigned message for run r is outstanding for
AskedWorkers(r) ==
    {w \in Workers : workerActive[w] /\ getGroupActionTask(r, w) \in dispatcherQ}

\* C26: whatever calls of scheduleGetGroupAction run side by side for a GroupKeyRun, at
\* most one active worker has a group-key-action-assigned message outstanding for it
C26_OneWorkerAsked ==
    \A r \in Runs : Cardinality(AskedWorkers(r)) <= 1

\* the QUEUED runs an admission pass has released and the job controller has not yet
\* turned RUNNING: their JobRun messages are on JOB_PROCESSING_QUEUE
AwaitingStart == {r \in Runs : wrStatus[r] = "QUEUED" /\ jobQ[r] > 0}

\* C27: under CANCEL_IN_PROGRESS the JobRuns of a QUEUED run are enqueued by at most one
\* admission pass: no step enqueues JobRun messages for a run whose JobRun messages an
\* earlier pass enqueued and which is still QUEUED
C27_ReleasedByOnePass ==
    [][strategy = "CANCEL_IN_PROGRESS"
          => \A r \in AwaitingStart : jobQ'[r] <= jobQ[r]]_vars

====
